---- MODULE Spec2Model ----
(***************************************************************************)
(* Model of the IntroSlides sequencer (assets/js/components/IntroSlides.js) *)
(* and of its timers.  Time is counted in ticks of TickMs milliseconds.    *)
(* A pending setTimeout is a record in `timers`, kept in creation order;   *)
(* the record carries the continuation of the async function that awaits   *)
(* it.  A timer that is cleared never resolves its promise, so the         *)
(* coroutine waiting on it never runs again.  The LetterDisplay component   *)
(* of assets/js/main.js is the record `letter`; it hears the sequencer's   *)
(* 'introSlidesComplete' event when letter.on holds.                       *)
(***************************************************************************)
EXTENDS Integers, Sequences, FiniteSets, TLC

\* ---------------------------------------------------------------- bounds
MaxN == 3
MaxOps == 3
MaxThrows == 1
MaxSpawns == 2
MaxWordLen == 2
TickMs == 50
TransitionChoices == {50, 100}
DelayChoices == {50, 100}
SpeedChoices == {50, 400}
Alphabet == {"a", ".", "!", "?"}

\* ------------------------------------------------------ program constants
FinalPauseMs == 400
EntranceDelayMs == 300
EntranceWaitMs == 800
ParagraphDelayMs == 200
LetterHideMs == 600
SignatureHeartMs == 1000
SignatureFadeMs == 500
HeartLifetimeMs == 2000
HeartIntervalMs == 2000
HoverStepMs == 100
HideDelayMs == 1000
ErrorStepMs == 200
ErrorTailMs == 1000
ReducedDelayMs == 800
ReducedTransitionMs == 200
AdjustedDelayMs == 500
AdjustedTransitionMs == 100
HeartSpreadMs == 1000
SlideHeartMs == 3000
MinHeartCount == 2
RestartDelayMs == 200

Ticks(ms) == (ms + TickMs - 1) \div TickMs

VARIABLES
    msgLen,             \* config.messages.length
    numSlides,          \* elements.slides.length
    slideDelay,         \* config.slideDelay, in ticks
    transitionDuration, \* config.transitionDuration, in ticks
    currentSlide,       \* state.currentSlide
    isPlaying,          \* state.isPlaying
    isPaused,           \* state.isPaused
    isCompleted,        \* state.isCompleted
    timers,             \* pending setTimeout callbacks, in creation order
    active,             \* slides carrying the class 'active'
    visible,            \* slides with style.visibility = 'visible'
    progress,           \* width of the progress bar, as a fraction
    sectionHidden,      \* the section carries the class 'hidden'
    started,            \* onSlideStart calls per index, this play-through
    completed,          \* onSlideComplete calls per index, this play-through
    seqComplete,        \* onSequenceComplete calls, this play-through
    broadcasts,         \* 'introSlidesComplete' dispatches, this play-through
    skipped,            \* skip() was called in this play-through
    curAtComplete,      \* currentSlide at the last complete(), -2 if none
    lenAtComplete,      \* messages.length at the last complete()
    staleRan,           \* a callback of a timer older than a pause/stop/skip ran
    throwsLeft,         \* how many more reveals may throw
    clock,              \* ticks since construction, -1 when time is not recorded
    startAt,            \* clock at the last onSlideStart, per index
    completeAt,         \* clock at the last onSlideComplete, per index
    doneAt,             \* clock at the last complete()
    lastOp,             \* the operation or timer step taken last
    letter,             \* the LetterDisplay component: config, state, DOM
    accessibilityMode,  \* config.accessibilityMode
    enableHeartEffects, \* config.enableHeartEffects
    configured,         \* slideDelay and transitionDuration as the constructor set them
    slideHearts,        \* '.slide-heart' elements in the document
    heartsMade,         \* createFloatingHeart() calls, this play-through
    startTime,          \* state.startTime, -1 for null
    callbackArg,        \* the argument of the last onSequenceComplete call
    eventDetail,        \* event.detail of the last 'introSlidesComplete'
    app,                \* ValentineApp.state
    opsLeft             \* how many more user operations may happen

vars == <<msgLen, numSlides, slideDelay, transitionDuration, currentSlide,
          isPlaying, isPaused, isCompleted, timers, active, visible, progress,
          sectionHidden, started, completed, seqComplete, broadcasts, skipped,
          curAtComplete, lenAtComplete, staleRan, throwsLeft, clock, startAt,
          completeAt, doneAt, lastOp, letter, accessibilityMode,
          enableHeartEffects, configured, slideHearts, heartsMade, startTime,
          callbackArg, eventDetail, app, opsLeft>>

Indices == 0 .. (MaxN - 1)
ZeroCounts == [i \in Indices |-> 0]
NoTimes == [i \in Indices |-> -1]
Fraction(n, d) == [num |-> n, den |-> d]

\* The component's fields gathered in one record, so that the body of a
\* method is a function from the record before to the record after.
St ==
    [msgLen |-> msgLen, numSlides |-> numSlides, slideDelay |-> slideDelay,
     transitionDuration |-> transitionDuration, currentSlide |-> currentSlide,
     isPlaying |-> isPlaying, isPaused |-> isPaused, isCompleted |-> isCompleted,
     timers |-> timers, active |-> active, visible |-> visible,
     progress |-> progress, sectionHidden |-> sectionHidden,
     started |-> started, completed |-> completed, seqComplete |-> seqComplete,
     broadcasts |-> broadcasts, skipped |-> skipped,
     curAtComplete |-> curAtComplete, lenAtComplete |-> lenAtComplete,
     staleRan |-> staleRan, throwsLeft |-> throwsLeft, clock |-> clock,
     startAt |-> startAt, completeAt |-> completeAt, doneAt |-> doneAt,
     letter |-> letter, accessibilityMode |-> accessibilityMode,
     enableHeartEffects |-> enableHeartEffects, configured |-> configured,
     slideHearts |-> slideHearts, heartsMade |-> heartsMade,
     startTime |-> startTime, callbackArg |-> callbackArg,
     eventDetail |-> eventDetail, app |-> app]

Set(s) ==
    /\ msgLen' = s.msgLen
    /\ numSlides' = s.numSlides
    /\ slideDelay' = s.slideDelay
    /\ transitionDuration' = s.transitionDuration
    /\ currentSlide' = s.currentSlide
    /\ isPlaying' = s.isPlaying
    /\ isPaused' = s.isPaused
    /\ isCompleted' = s.isCompleted
    /\ timers' = s.timers
    /\ active' = s.active
    /\ visible' = s.visible
    /\ progress' = s.progress
    /\ sectionHidden' = s.sectionHidden
    /\ started' = s.started
    /\ completed' = s.completed
    /\ seqComplete' = s.seqComplete
    /\ broadcasts' = s.broadcasts
    /\ skipped' = s.skipped
    /\ curAtComplete' = s.curAtComplete
    /\ lenAtComplete' = s.lenAtComplete
    /\ staleRan' = s.staleRan
    /\ throwsLeft' = s.throwsLeft
    /\ clock' = s.clock
    /\ startAt' = s.startAt
    /\ completeAt' = s.completeAt
    /\ doneAt' = s.doneAt
    /\ letter' = s.letter
    /\ accessibilityMode' = s.accessibilityMode
    /\ enableHeartEffects' = s.enableHeartEffects
    /\ configured' = s.configured
    /\ slideHearts' = s.slideHearts
    /\ heartsMade' = s.heartsMade
    /\ startTime' = s.startTime
    /\ callbackArg' = s.callbackArg
    /\ eventDetail' = s.eventDetail
    /\ app' = s.app

\* ------------------------------------------------------------------ timers
Timer(duration, tracked, kind, idx, prev, caller) ==
    [rem |-> duration, tracked |-> tracked, stale |-> FALSE,
     kind |-> kind, idx |-> idx, prev |-> prev, caller |-> caller, data |-> <<>>,
     old |-> FALSE, frame |-> [run |-> -1, el |-> -1]]

\* setTimeout(callback, duration) whose id is not kept in state.timeouts
setTimeout(s, duration, kind, idx) ==
    [s EXCEPT !.timers = Append(@, Timer(duration, FALSE, kind, idx, -1, "none"))]

\* wait(duration): the timer id is pushed on state.timeouts
wait(s, duration, kind, idx, prev, caller) ==
    [s EXCEPT !.timers = Append(@, Timer(duration, TRUE, kind, idx, prev, caller))]

\* clearTimeouts(): every id in state.timeouts is cleared
clearTimeouts(s) ==
    [s EXCEPT !.timers = SelectSeq(@, LAMBDA t : ~t.tracked)]

\* Timers that survive a pause(), stop() or skip() were created before it.
MarkStale(s) ==
    [s EXCEPT !.timers = [j \in DOMAIN @ |-> [@[j] EXCEPT !.stale = TRUE]]]

\* Timers that survive a restart were created by the play-through before it.
MarkOld(s) ==
    [s EXCEPT !.timers = [j \in DOMAIN @ |-> [@[j] EXCEPT !.old = TRUE]]]

\* no completion has been reported yet
NoPayload == [reported |-> FALSE]

\* Date.now() - state.startTime, where null counts as 0
elapsed(s) == IF s.startTime < 0 THEN s.clock ELSE s.clock - s.startTime

\* ValentineApp before it exists: the components have no handlers
AppOff ==
    [on |-> FALSE, currentPhase |-> "loading", introComplete |-> FALSE,
     letterVisible |-> FALSE]

\* ValentineApp.state after the constructor
ValentineApp == [AppOff EXCEPT !.on = TRUE]

handleIntroComplete(s) ==
    IF s.app.on
    THEN [s EXCEPT !.app.currentPhase = "letter", !.app.introComplete = TRUE]
    ELSE s

handleLetterShow(s) ==
    IF s.app.on THEN [s EXCEPT !.app.letterVisible = TRUE] ELSE s

handleLetterHide(s) ==
    IF s.app.on THEN [s EXCEPT !.app.letterVisible = FALSE] ELSE s

\* a progress bar that is never redrawn
updateProgressBarOff(s, frac) == s

updateProgressBar(s, frac) == [s EXCEPT !.progress = frac]

\* ------------------------------------------------------------ LetterDisplay
\* A word is a sequence of characters and a text a sequence of words: the
\* string is the words joined by single spaces, and split(' ') gives the
\* words back (a trailing space is a last empty word).
Punctuation == {".", "!", "?"}

includes(word, ch) == \E k \in DOMAIN word : word[k] = ch

\* the delay awaited after revealing `word`, in milliseconds
wordDelay(word, speed) ==
    IF includes(word, ".") \/ includes(word, "!") \/ includes(word, "?")
    THEN speed * 3
    ELSE speed

CursorText == << <<"|">> >>

\* A <p> element of the letter: `gen` tells which setContent() created it
\* (0 for the constructor), `by` which reveal run styled it last (-1: none).
Paragraph(text, vis) ==
    [text |-> text, vis |-> vis, typed |-> FALSE, gen |-> 0, by |-> -1]

\* What a suspended reveal holds in its closure: the generation of the list
\* its run started on and the generation of the element it is typing.
NoFrame == [run |-> -1, el |-> -1]

\* LetterDisplay before it exists: nothing listens to the broadcast
LetterOff ==
    [on |-> FALSE, accessibilityMode |-> FALSE, enableTypewriter |-> TRUE,
     enableHeartEffects |-> FALSE, typewriterSpeed |-> 50, signature |-> FALSE,
     containerVisible |-> FALSE, isVisible |-> FALSE, isAnimating |-> FALSE,
     typewriterActive |-> FALSE, heartsEnabled |-> TRUE,
     content |-> <<>>, paragraphs |-> <<>>, restored |-> <<>>,
     signatureVisible |-> FALSE, signatureHeart |-> FALSE,
     contentComplete |-> 0, shown |-> 0, entered |-> 0, hidden |-> 0,
     lastWord |-> <<>>, lastDelay |-> 0, sinceHeard |-> -1,
     hearts |-> {}, heartSeq |-> 0, heartInterval |-> 0, intervalSeq |-> 0,
     fault |-> "none", caught |-> 0, gen |-> 0, finishedRun |-> -1]

\* The constructor: config, initial state and prepareContent().
LetterDisplay(content, reducedMotion, enableTypewriter, heartEffects, speed, signature) ==
    [LetterOff EXCEPT
        !.on = TRUE,
        !.accessibilityMode = reducedMotion,
        !.enableTypewriter = enableTypewriter,
        !.enableHeartEffects = heartEffects,
        !.typewriterSpeed = speed,
        !.signature = signature,
        !.content = content,
        !.paragraphs = [k \in DOMAIN content |->
                          Paragraph(content[k], ~(enableTypewriter \/ ~reducedMotion))],
        !.restored = [k \in DOMAIN content |-> <<>>]]

\* LetterDisplay.wait(ms) and its bare setTimeout calls: never tracked
letterTimer(s, duration, kind, idx, word, data) ==
    [s EXCEPT !.timers = Append(@, [rem |-> duration, tracked |-> FALSE,
                                    stale |-> FALSE, kind |-> kind, idx |-> idx,
                                    prev |-> word, caller |-> "letter",
                                    data |-> data, old |-> FALSE,
                                    frame |-> NoFrame])]

\* a wait inside animateContent() / animateParagraph(): the continuation
\* keeps the closure of its run
frameTimer(s, duration, kind, idx, word, data, frame) ==
    LET s1 == letterTimer(s, duration, kind, idx, word, data)
    IN  [s1 EXCEPT !.timers[Len(s1.timers)].frame = frame]

\* the element at `index` of the current list is the one the closure holds
attached(s, index, frame) ==
    /\ index + 1 \in DOMAIN s.letter.paragraphs
    /\ s.letter.paragraphs[index + 1].gen = frame.el

\* a listener that calls show() with no entrance delay
introSlidesCompleteNoDelay(s) ==
    IF s.letter.on
    THEN letterTimer([s EXCEPT !.letter.sinceHeard = IF @ < 0 THEN 0 ELSE @],
                     0, "letterShow", -1, -1, <<>>)
    ELSE s

\* the document listener for 'introSlidesComplete'
introSlidesComplete(s) ==
    IF s.letter.on
    THEN letterTimer([s EXCEPT !.letter.sinceHeard = IF @ < 0 THEN 0 ELSE @],
                     Ticks(EntranceDelayMs), "letterShow", -1, -1, <<>>)
    ELSE s

spawnHeartUnguarded(s) ==
    LET id == s.letter.heartSeq + 1
        s1 == [s EXCEPT !.letter.heartSeq = id,
                        !.letter.hearts = @ \cup {[id |-> id, age |-> 0]}]
    IN  letterTimer(s1, Ticks(HeartLifetimeMs), "heartGone", id, -1, <<>>)

spawnHeart(s) ==
    IF ~s.letter.heartsEnabled THEN s
    ELSE LET id == s.letter.heartSeq + 1
             s1 == [s EXCEPT !.letter.heartSeq = id,
                             !.letter.hearts = @ \cup {[id |-> id, age |-> 0]}]
         IN  letterTimer(s1, Ticks(HeartLifetimeMs), "heartGone", id, -1, <<>>)

removeHeart(s, id) ==
    [s EXCEPT !.letter.hearts = {h \in @ : h.id # id}]

createParagraphEffect(s) ==
    LET s1 == letterTimer(s, Ticks(0 * HoverStepMs), "hoverHeart", 0, -1, <<>>)
        s2 == letterTimer(s1, Ticks(1 * HoverStepMs), "hoverHeart", 1, -1, <<>>)
    IN  letterTimer(s2, Ticks(2 * HoverStepMs), "hoverHeart", 2, -1, <<>>)

spawnBackgroundHeart(s) ==
    IF ~s.letter.isVisible \/ ~s.letter.heartsEnabled THEN s ELSE spawnHeart(s)

startBackgroundHearts(s) ==
    IF ~s.letter.enableHeartEffects \/ s.letter.accessibilityMode THEN s
    ELSE LET id == s.letter.intervalSeq + 1
         IN  letterTimer([s EXCEPT !.letter.intervalSeq = id,
                                   !.letter.heartInterval = id],
                         Ticks(HeartIntervalMs), "interval", id, -1, <<>>)

\* one run of the setInterval callback; the interval stays armed
intervalFired(s, t, lucky) ==
    LET s1 == letterTimer(s, Ticks(HeartIntervalMs), "interval", t.idx, -1, <<>>)
    IN  IF lucky THEN spawnBackgroundHeart(s1) ELSE s1

clearInterval(s, id) ==
    [s EXCEPT !.timers = SelectSeq(@, LAMBDA x : ~(x.kind = "interval" /\ x.idx = id))]

toggleHearts(s) ==
    LET s1 == [s EXCEPT !.letter.heartsEnabled = ~@]
    IN  IF ~s1.letter.heartsEnabled
        THEN LET s2 == [s1 EXCEPT !.letter.hearts = {}]
             IN  IF s2.letter.heartInterval # 0
                 THEN clearInterval(s2, s2.letter.heartInterval)
                 ELSE s2
        ELSE startBackgroundHearts(s1)

\* a reveal that leaves the signature out
animateSignatureOff(s) == s

animateSignature(s) ==
    IF ~s.letter.signature THEN s
    ELSE letterTimer([s EXCEPT !.letter.signatureVisible = TRUE],
                     Ticks(SignatureHeartMs), "signatureHeart", -1, -1, <<>>)

showAllContent(s) ==
    [s EXCEPT !.letter.paragraphs = [k \in DOMAIN @ |->
                                        [@[k] EXCEPT !.vis = TRUE, !.by = s.letter.gen]],
              !.letter.signatureVisible = s.letter.signature,
              !.letter.contentComplete = @ + 1]

\* the catch block of show()
showCatch(s) ==
    showAllContent([s EXCEPT !.letter.isAnimating = FALSE, !.letter.caught = @ + 1])

\* show() after its content branch: onShow, then the background hearts;
\* letter.fault names the step of show() that throws, if one does
afterContent(s) ==
    LET s0 == [s EXCEPT !.letter.shown = @ + 1]
        s1 == handleLetterShow(s0)
    IN  IF s.letter.fault = "onShow" THEN showCatch(s0)
        ELSE IF s1.letter.enableHeartEffects
             THEN IF s.letter.fault = "hearts" THEN showCatch(s1)
                  ELSE startBackgroundHearts(s1)
             ELSE s1

\* animateContent() after its for loop, and the rest of show() behind it
contentTail(s, frame) ==
    LET s1 == animateSignature(s)
    IN  afterContent([s1 EXCEPT !.letter.typewriterActive = FALSE,
                                !.letter.contentComplete = @ + 1,
                                !.letter.finishedRun = frame.run])

\* animateParagraph() after its for loop; back in animateContent's loop
paragraphDone(s, i, originalText, frame) ==
    LET s1 == IF attached(s, i, frame)
              THEN [s EXCEPT !.letter.paragraphs[i + 1] =
                                 [@ EXCEPT !.text = originalText, !.vis = TRUE,
                                           !.typed = TRUE, !.by = frame.run],
                             !.letter.restored[i + 1] = originalText]
              ELSE s
    IN  IF i < Len(s1.letter.paragraphs) - 1
        THEN frameTimer(s1, Ticks(ParagraphDelayMs), "paragraph", i, -1, <<>>, frame)
        ELSE contentTail(s1, frame)

\* the for loop of animateParagraph() at word i of paragraph `index`
typeWord(s, index, i, originalText, frame) ==
    IF i < Len(originalText) /\ s.letter.typewriterActive
    THEN LET word == originalText[i + 1]
             delay == wordDelay(word, s.letter.typewriterSpeed)
             s0 == IF attached(s, index, frame)
                   THEN [s EXCEPT !.letter.paragraphs[index + 1].text =
                                      SubSeq(originalText, 1, i + 1) \o << <<>> >>]
                   ELSE s
             s1 == [s0 EXCEPT !.letter.lastWord = word,
                              !.letter.lastDelay = delay]
         IN  frameTimer(s1, Ticks(delay), "word", index, i, originalText, frame)
    ELSE paragraphDone(s, index, originalText, frame)

\* animateParagraph(paragraph, index) on the element now at `index`
animateParagraph(s, index, run) ==
    LET originalText == s.letter.paragraphs[index + 1].text
        frame == [run |-> run, el |-> s.letter.paragraphs[index + 1].gen]
        s1 == [s EXCEPT !.letter.paragraphs[index + 1] =
                            [@ EXCEPT !.vis = TRUE, !.text = CursorText,
                                      !.by = run]]
    IN  typeWord(s1, index, 0, originalText, frame)

\* the for loop of animateContent() at paragraph i
contentLoop(s, i, frame) ==
    IF i < Len(s.letter.paragraphs) /\ s.letter.typewriterActive
    THEN animateParagraph(s, i, frame.run)
    ELSE contentTail(s, frame)

animateContent(s) ==
    LET s1 == [s EXCEPT !.letter.typewriterActive = TRUE]
        frame == [run |-> s.letter.gen, el |-> -1]
    IN  IF s.letter.fault = "content" THEN showCatch(s1)
        ELSE contentLoop(s1, 0, frame)

\* innerHTML of the letter for a list of paragraphs: a flat run of tokens
OpenP == <<"<p>">>
CloseP == <<"</p>">>

RECURSIVE toHtml(_)
toHtml(content) ==
    IF content = <<>> THEN <<>>
    ELSE <<OpenP>> \o Head(content) \o <<CloseP>> \o toHtml(Tail(content))

\* querySelectorAll('p') on the parsed tokens: a <p> inside an open paragraph
\* ends it and opens the next, text outside a paragraph belongs to none
RECURSIVE parseParagraphs(_, _, _)
parseParagraphs(tokens, open, current) ==
    IF tokens = <<>> THEN (IF open THEN <<current>> ELSE <<>>)
    ELSE LET tok == Head(tokens)
             rest == Tail(tokens)
         IN  IF tok = OpenP
             THEN (IF open THEN <<current>> ELSE <<>>) \o parseParagraphs(rest, TRUE, <<>>)
             ELSE IF tok = CloseP
                  THEN (IF open THEN <<current>> ELSE << <<>> >>)
                           \o parseParagraphs(rest, FALSE, <<>>)
                  ELSE parseParagraphs(rest, open,
                                       IF open THEN Append(current, tok) ELSE current)

\* setContent(content) with an array: fresh <p> elements, without any inline
\* style, replace the list
setContent(s, content) ==
    IF ~s.letter.on THEN s
    ELSE LET texts == parseParagraphs(toHtml(content), FALSE, <<>>)
             gen == s.letter.gen + 1
         IN  [s EXCEPT !.letter.gen = gen,
                       !.letter.content = content,
                       !.letter.paragraphs =
                           [k \in DOMAIN texts |->
                               [Paragraph(texts[k], TRUE) EXCEPT !.gen = gen]],
                       !.letter.restored = [k \in DOMAIN texts |-> <<>>]]

letterShow(s) ==
    IF s.letter.isVisible \/ s.letter.isAnimating THEN s
    ELSE IF s.letter.fault = "entrance"
         THEN showCatch([s EXCEPT !.letter.isAnimating = TRUE])
         ELSE letterTimer([s EXCEPT !.letter.isAnimating = TRUE,
                                    !.letter.containerVisible = TRUE],
                          Ticks(EntranceWaitMs), "entrance", -1, -1, <<>>)

\* a show() that looks at enableTypewriter alone
entranceDoneTypewriterOnly(s) ==
    LET s1 == [s EXCEPT !.letter.isVisible = TRUE, !.letter.isAnimating = FALSE,
                        !.letter.entered = @ + 1]
    IN  IF s1.letter.enableTypewriter
        THEN animateContent(s1)
        ELSE afterContent(showAllContent(s1))

\* show() after `await this.wait(800)`
entranceDone(s) ==
    LET s1 == [s EXCEPT !.letter.isVisible = TRUE, !.letter.isAnimating = FALSE,
                        !.letter.entered = @ + 1]
    IN  IF s1.letter.enableTypewriter /\ ~s1.letter.accessibilityMode
        THEN animateContent(s1)
        ELSE afterContent(showAllContent(s1))

letterHide(s) ==
    IF ~s.letter.isVisible THEN s
    ELSE letterTimer(s, Ticks(LetterHideMs), "letterHidden", -1, -1, <<>>)

letterHidden(s) ==
    handleLetterHide(
        [s EXCEPT !.letter.containerVisible = FALSE, !.letter.isVisible = FALSE,
                  !.letter.hidden = @ + 1])

\* the callbacks of LetterDisplay's timers
fireLetterTimer(s, t, lucky) ==
    CASE t.kind = "letterShow" -> letterShow(s)
      [] t.kind = "entrance" -> entranceDone(s)
      [] t.kind = "word" -> typeWord(s, t.idx, t.prev + 1, t.data, t.frame)
      [] t.kind = "paragraph" -> contentLoop(s, t.idx + 1, t.frame)
      [] t.kind = "signatureHeart" ->
            IF s.letter.signatureHeart THEN s
            ELSE letterTimer([s EXCEPT !.letter.signatureHeart = TRUE],
                             Ticks(SignatureFadeMs), "signatureFade", -1, -1, <<>>)
      [] t.kind = "signatureFade" -> s
      [] t.kind = "letterHidden" -> letterHidden(s)
      [] t.kind = "heartGone" -> removeHeart(s, t.idx)
      [] t.kind = "hoverHeart" -> spawnHeart(s)
      [] t.kind = "interval" -> intervalFired(s, t, lucky)

\* ghost ages after k ticks: the time since the first broadcast was heard
\* (counted up to the end of the entrance) and the age of each heart
elapse(l, k) ==
    LET entrance == Ticks(EntranceDelayMs) + Ticks(EntranceWaitMs)
    IN  [l EXCEPT !.sinceHeard = IF @ < 0 THEN @
                                 ELSE IF @ + k > entrance THEN entrance ELSE @ + k,
                  !.hearts = {[h EXCEPT !.age = @ + k] : h \in l.hearts}]

\* ---------------------------------------------------------------- complete
hide(s) == setTimeout(s, s.transitionDuration, "hidden", -1)

complete(s) ==
    LET s1 == [s EXCEPT !.isPlaying = FALSE, !.isPaused = FALSE,
                        !.isCompleted = TRUE]
        s2 == updateProgressBar(s1, Fraction(1, 1))
        s3 == [s2 EXCEPT !.seqComplete = @ + 1, !.broadcasts = @ + 1,
                         !.curAtComplete = s.currentSlide,
                         !.lenAtComplete = s.msgLen, !.doneAt = s.clock,
                         !.callbackArg = [duration |-> elapsed(s),
                                          slideCount |-> s.msgLen],
                         !.eventDetail = [component |-> "IntroSlides",
                                          duration |-> elapsed(s)]]
    IN  setTimeout(introSlidesComplete(handleIntroComplete(s3)),
                   Ticks(HideDelayMs), "hide", -1)

handleError(s) ==
    LET RECURSIVE Reveal(_, _)
        Reveal(r, index) ==
            IF index >= r.numSlides THEN r
            ELSE Reveal(setTimeout(r, Ticks(index * ErrorStepMs), "errReveal", index),
                        index + 1)
        s1 == Reveal([s EXCEPT !.isPlaying = FALSE], 0)
    IN  setTimeout(s1, Ticks(s.msgLen * ErrorStepMs + ErrorTailMs), "errComplete", -1)

\* An exception leaving showSlide: start() awaits playSequence inside
\* try/catch, resume() and nextSlide() do not await at all.
throw(s, caller) ==
    LET s1 == [s EXCEPT !.throwsLeft = @ - 1]
    IN  IF caller = "play" THEN handleError(s1) ELSE s1

\* --------------------------------------------------------------- play loop
\* a trailing wait that always lasts slideDelay
loopExitDelay(s, caller) ==
    IF s.isPlaying /\ ~s.isPaused
    THEN wait(s, s.slideDelay, "final", -1, -1, caller)
    ELSE s

\* The trailing part of playSequence / continueSequence, after the for loop.
loopExit(s, caller) ==
    IF s.isPlaying /\ ~s.isPaused
    THEN wait(s, IF caller = "play" THEN Ticks(FinalPauseMs) ELSE s.slideDelay,
              "final", -1, -1, caller)
    ELSE s

\* What the caller of showSlide(i) does once showSlide has returned.
afterSlide(s, i, caller) ==
    IF caller = "none" THEN s
    ELSE IF i < s.msgLen - 1
         THEN wait(s, s.slideDelay, "delay", i, -1, caller)
         ELSE loopExit(s, caller)

onSlideStart(s, index) ==
    [s EXCEPT !.started[index] = @ + 1, !.startAt[index] = s.clock]

onSlideComplete(s, index) ==
    [s EXCEPT !.completed[index] = @ + 1, !.completeAt[index] = s.clock]

\* createFloatingHeart(): the heart is removed 3 s later
createFloatingHeart(s) ==
    setTimeout([s EXCEPT !.slideHearts = @ + 1, !.heartsMade = @ + 1],
               Ticks(SlideHeartMs), "slideHeartGone", -1)

\* addHeartEffect(): at least two hearts, each after a random delay below
\* one second (the timer holds the longest delay, FloatHeart any shorter one)
addHeartEffect(s) ==
    IF s.accessibilityMode THEN s
    ELSE LET RECURSIVE Hearts(_, _)
             Hearts(r, i) ==
                 IF i >= MinHeartCount THEN r
                 ELSE Hearts(setTimeout(r, Ticks(HeartSpreadMs), "slideHeart", i), i + 1)
         IN  Hearts(s, 0)

\* a reveal that leaves the previous slide marked active
activateKeepPrevious(s, previousIndex, index) ==
    [s EXCEPT !.visible = @ \cup {index}, !.active = @ \cup {index}]

\* showSlide(): the previous slide exits, the current one is shown
activate(s, previousIndex, index) ==
    LET s1 == IF previousIndex >= 0
              THEN [s EXCEPT !.active = @ \ {previousIndex}]
              ELSE s
    IN  [s1 EXCEPT !.visible = @ \cup {index}, !.active = @ \cup {index}]

\* a showSlide that reveals an index whether or not a slide element exists
showSlideNoGuard(s, index, caller, thr) ==
    LET previousIndex == s.currentSlide
        s1 == [s EXCEPT !.currentSlide = index]
        s2 == updateProgressBar(s1, Fraction(index + 1, s.msgLen))
        s3 == onSlideStart(s2, index)
        s4 == activate(s3, previousIndex, index)
    IN  wait(s4, s.transitionDuration, "trans", index, previousIndex, caller)

\* a showSlide whose caller does not wait for the transition
showSlideNoAwait(s, index, caller, thr) ==
    IF index < 0 \/ index >= s.numSlides THEN afterSlide(s, index, caller)
    ELSE
    LET previousIndex == s.currentSlide
        s1 == onSlideStart([s EXCEPT !.currentSlide = index], index)
        s2 == [s1 EXCEPT !.visible = @ \cup {index},
                         !.active = (@ \ {previousIndex}) \cup {index}]
    IN  afterSlide(wait(s2, s.transitionDuration, "trans", index, previousIndex, "none"),
                   index, caller)

\* showSlide(index) up to its await
showSlide(s, index, caller, thr) ==
    IF index < 0 \/ index >= s.numSlides THEN afterSlide(s, index, caller)
    ELSE
    LET previousIndex == s.currentSlide
        s1 == [s EXCEPT !.currentSlide = index]
        s2 == updateProgressBar(s1, Fraction(index + 1, s.msgLen))
        s3 == onSlideStart(s2, index)
        s4 == activate(s3, previousIndex, index)
        s5 == IF s.enableHeartEffects THEN addHeartEffect(s4) ELSE s4
    IN  IF thr = "start" THEN throw(s3, caller)
        ELSE wait(s5, s.transitionDuration, "trans", index, previousIndex, caller)

\* showSlide(index) after its await, and then its caller
showSlideResume(s, t, thr) ==
    LET s1 == IF t.prev >= 0 THEN [s EXCEPT !.visible = @ \ {t.prev}] ELSE s
        s2 == onSlideComplete(s1, t.idx)
    IN  IF thr = "complete" THEN throw(s2, t.caller)
        ELSE afterSlide(s2, t.idx, t.caller)

\* One turn of the for loop of playSequence / continueSequence
loopStep(s, i, caller, thr) ==
    IF i < s.msgLen
    THEN IF ~s.isPlaying \/ s.isPaused
         THEN loopExit(s, caller)
         ELSE showSlide(s, i, caller, thr)
    ELSE loopExit(s, caller)

playSequence(s, thr) == loopStep(s, 0, "play", thr)

\* a resumed loop that shows the current slide again
continueSequenceRedo(s, thr) == loopStep(s, s.currentSlide, "cont", thr)

continueSequence(s, thr) == loopStep(s, s.currentSlide + 1, "cont", thr)

\* -------------------------------------------------------------- operations
\* a start() without its guard
startNoGuard(s, thr) ==
    playSequence([s EXCEPT !.isPlaying = TRUE, !.isPaused = FALSE], thr)

start(s, thr) ==
    IF s.isPlaying \/ s.isCompleted THEN s
    ELSE playSequence(
            [s EXCEPT !.isPlaying = TRUE, !.isPaused = FALSE,
                      !.sectionHidden = FALSE,
                      !.started = ZeroCounts, !.completed = ZeroCounts,
                      !.seqComplete = 0, !.broadcasts = 0, !.skipped = FALSE,
                      !.curAtComplete = -2, !.lenAtComplete = s.msgLen,
                      !.startAt = NoTimes, !.completeAt = NoTimes, !.doneAt = -1,
                      !.heartsMade = 0, !.startTime = s.clock,
                      !.callbackArg = NoPayload, !.eventDetail = NoPayload],
            thr)

\* a pause() that does not look at isPlaying
pauseAnyState(s) ==
    IF s.isPaused THEN s
    ELSE MarkStale(clearTimeouts([s EXCEPT !.isPaused = TRUE]))

pause(s) ==
    IF ~s.isPlaying \/ s.isPaused THEN s
    ELSE MarkStale(clearTimeouts([s EXCEPT !.isPaused = TRUE]))

resume(s, thr) ==
    IF ~s.isPlaying \/ ~s.isPaused THEN s
    ELSE continueSequence([s EXCEPT !.isPaused = FALSE], thr)

\* a nextSlide() that leaves the pending waits in place
nextSlideNoClear(s, thr) ==
    IF ~s.isPlaying \/ s.currentSlide >= s.msgLen - 1 THEN s
    ELSE showSlide(s, s.currentSlide + 1, "none", thr)

nextSlide(s, thr) ==
    IF ~s.isPlaying \/ s.currentSlide >= s.msgLen - 1 THEN s
    ELSE showSlide(clearTimeouts(s), s.currentSlide + 1, "none", thr)

\* a skip() that completes without cancelling the pending waits
skipNoClear(s) == [MarkStale(complete(s)) EXCEPT !.skipped = TRUE]

skip(s) ==
    LET s1 == complete(clearTimeouts(s))
    IN  [MarkStale(s1) EXCEPT !.skipped = TRUE]

stop(s) ==
    MarkStale(clearTimeouts([s EXCEPT !.isPlaying = FALSE, !.isPaused = FALSE]))

resetSlides(s) ==
    updateProgressBar(
        [s EXCEPT !.active = {}, !.visible = {}, !.currentSlide = -1,
                  !.isCompleted = FALSE],
        Fraction(0, 1))

restart(s, thr) == start(MarkOld(resetSlides(stop(s))), thr)

updateConfig(s, newLen) == [s EXCEPT !.msgLen = newLen]

adjustForReducedMotion(s) ==
    [s EXCEPT !.slideDelay = Ticks(AdjustedDelayMs),
              !.transitionDuration = Ticks(AdjustedTransitionMs),
              !.enableHeartEffects = FALSE]

\* the listener of the (prefers-reduced-motion: reduce) media query
motionChange(s, matches) ==
    LET s1 == [s EXCEPT !.accessibilityMode = matches]
    IN  IF matches /\ s.isPlaying THEN adjustForReducedMotion(s1) ELSE s1

\* ValentineApp.startExperience()
startExperience(s, thr) ==
    start([s EXCEPT !.app.currentPhase = "intro"], thr)

\* ValentineApp.restartExperience(): the intro starts again 200 ms later
restartExperience(s) ==
    LET s1 == [s EXCEPT !.app.currentPhase = "loading",
                        !.app.introComplete = FALSE,
                        !.app.letterVisible = FALSE]
        s2 == IF s1.letter.on THEN letterHide(s1) ELSE s1
        s3 == [resetSlides(stop(s2)) EXCEPT !.sectionHidden = FALSE]
    IN  setTimeout(MarkOld(s3), Ticks(RestartDelayMs), "startExperience", -1)

\* a keydown handler that does not look at isPlaying
keydownNoGuard(s, key, thr) ==
    CASE key = "Escape" -> skip(s)
      [] key \in {" ", "Enter"} ->
            IF s.isPaused THEN resume(s, thr) ELSE pause(s)
      [] key = "ArrowRight" -> nextSlide(s, thr)
      [] OTHER -> s

keydown(s, key, thr) ==
    IF ~s.isPlaying THEN s
    ELSE CASE key = "Escape" -> skip(s)
           [] key \in {" ", "Enter"} ->
                IF s.isPaused THEN resume(s, thr) ELSE pause(s)
           [] key = "ArrowRight" -> nextSlide(s, thr)
           [] OTHER -> s

\* The callback of a timer that has come due.
fireTimer(s, t, thr, lucky) ==
    LET s0 == IF t.stale /\ t.kind \in {"trans", "delay", "final", "errComplete"}
              THEN [s EXCEPT !.staleRan = TRUE] ELSE s
    IN  CASE t.kind = "trans" -> showSlideResume(s0, t, thr)
          [] t.kind = "delay" -> loopStep(s0, t.idx + 1, t.caller, thr)
          [] t.kind = "final" -> complete(s0)
          [] t.kind = "errComplete" -> complete(s0)
          [] t.kind = "errReveal" ->
                [s0 EXCEPT !.visible = @ \cup {t.idx}, !.active = @ \cup {t.idx}]
          [] t.kind = "hide" -> hide(s0)
          [] t.kind = "hidden" -> [s0 EXCEPT !.sectionHidden = TRUE]
          [] t.kind = "slideHeart" -> createFloatingHeart(s0)
          [] t.kind = "slideHeartGone" -> [s0 EXCEPT !.slideHearts = @ - 1]
          [] t.kind = "startExperience" -> startExperience(s0, thr)
          [] OTHER -> fireLetterTimer(s0, t, lucky)

\* ----------------------------------------------------------------- actions
\* the lists given to setContent(): one or two plain paragraphs, and one
\* paragraph whose text holds markup
ContentChoices ==
    {<< << <<"a">> >> >>,
     << << <<"a">>, <<"a", ".">> >>, << <<"a">> >> >>,
     << << <<"a">>, OpenP, <<"a">> >> >>}

ThrowChoices == {"none", "start", "complete"}

\* A step in which `thr` names the callback that throws is a step in which
\* that callback was really reached.
Threw(s, r, thr) ==
    \/ thr = "none" /\ r.throwsLeft = s.throwsLeft
    \/ thr # "none" /\ s.throwsLeft > 0 /\ r.throwsLeft = s.throwsLeft - 1

Start ==
    /\ opsLeft > 0
    /\ opsLeft' = opsLeft - 1
    /\ lastOp' = "start"
    /\ \E thr \in ThrowChoices :
           LET r == start(St, thr) IN Threw(St, r, thr) /\ Set(r)

Pause ==
    /\ opsLeft > 0
    /\ opsLeft' = opsLeft - 1
    /\ lastOp' = "pause"
    /\ Set(pause(St))

\* resume() while Paused; it is not counted, so that a pause can always be
\* followed by a resume
Resume ==
    /\ isPlaying /\ isPaused
    /\ UNCHANGED opsLeft
    /\ lastOp' = "resume"
    /\ \E thr \in ThrowChoices :
           LET r == resume(St, thr) IN Threw(St, r, thr) /\ Set(r)

\* resume() called in whatever state the sequencer is in
ResumeCall ==
    /\ opsLeft > 0
    /\ opsLeft' = opsLeft - 1
    /\ lastOp' = "resume"
    /\ \E thr \in ThrowChoices :
           LET r == resume(St, thr) IN Threw(St, r, thr) /\ Set(r)

NextSlide ==
    /\ opsLeft > 0
    /\ opsLeft' = opsLeft - 1
    /\ lastOp' = "nextSlide"
    /\ \E thr \in ThrowChoices :
           LET r == nextSlide(St, thr) IN Threw(St, r, thr) /\ Set(r)

Skip ==
    /\ opsLeft > 0
    /\ opsLeft' = opsLeft - 1
    /\ lastOp' = "skip"
    /\ Set(skip(St))

Complete ==
    /\ opsLeft > 0
    /\ opsLeft' = opsLeft - 1
    /\ lastOp' = "complete"
    /\ Set(complete(St))

Stop ==
    /\ opsLeft > 0
    /\ opsLeft' = opsLeft - 1
    /\ lastOp' = "stop"
    /\ Set(stop(St))

ResetSlides ==
    /\ opsLeft > 0
    /\ opsLeft' = opsLeft - 1
    /\ lastOp' = "resetSlides"
    /\ Set(resetSlides(St))

Restart ==
    /\ opsLeft > 0
    /\ opsLeft' = opsLeft - 1
    /\ lastOp' = "restart"
    /\ \E thr \in ThrowChoices :
           LET r == restart(St, thr) IN Threw(St, r, thr) /\ Set(r)

UpdateConfig ==
    /\ opsLeft > 0
    /\ opsLeft' = opsLeft - 1
    /\ lastOp' = "updateConfig"
    /\ \E newLen \in 1 .. MaxN : Set(updateConfig(St, newLen))

Keydown ==
    /\ opsLeft > 0
    /\ opsLeft' = opsLeft - 1
    /\ lastOp' = "keydown"
    /\ \E key \in {"Escape", " ", "Enter", "ArrowRight"}, thr \in ThrowChoices :
           LET r == keydown(St, key, thr) IN Threw(St, r, thr) /\ Set(r)

\* the Space, Enter and Escape keys, one action each
KeySpace ==
    /\ opsLeft > 0
    /\ opsLeft' = opsLeft - 1
    /\ lastOp' = "Space"
    /\ \E thr \in ThrowChoices :
           LET r == keydown(St, " ", thr) IN Threw(St, r, thr) /\ Set(r)

KeyEnter ==
    /\ opsLeft > 0
    /\ opsLeft' = opsLeft - 1
    /\ lastOp' = "Enter"
    /\ \E thr \in ThrowChoices :
           LET r == keydown(St, "Enter", thr) IN Threw(St, r, thr) /\ Set(r)

KeyEscape ==
    /\ opsLeft > 0
    /\ opsLeft' = opsLeft - 1
    /\ lastOp' = "Escape"
    /\ \E thr \in ThrowChoices :
           LET r == keydown(St, "Escape", thr) IN Threw(St, r, thr) /\ Set(r)

\* the reduced-motion preference of the system changes
MotionChange ==
    /\ opsLeft > 0
    /\ opsLeft' = opsLeft - 1
    /\ lastOp' = "motionChange"
    /\ \E matches \in BOOLEAN : Set(motionChange(St, matches))

\* handleInitialLoad() or the restart timer calls startExperience()
StartExperience ==
    /\ opsLeft > 0
    /\ opsLeft' = opsLeft - 1
    /\ lastOp' = "startExperience"
    /\ \E thr \in ThrowChoices :
           LET r == startExperience(St, thr) IN Threw(St, r, thr) /\ Set(r)

\* the restart button or Ctrl+R
RestartExperience ==
    /\ opsLeft > 0
    /\ opsLeft' = opsLeft - 1
    /\ lastOp' = "restartExperience"
    /\ Set(restartExperience(St))

\* LetterDisplay.hide() called from outside
LetterHide ==
    /\ opsLeft > 0
    /\ opsLeft' = opsLeft - 1
    /\ lastOp' = "letterHide"
    /\ Set(letterHide(St))

\* LetterDisplay.setContent() with a list of paragraphs
SetContent ==
    /\ opsLeft > 0
    /\ letter.on
    /\ opsLeft' = opsLeft - 1
    /\ lastOp' = "setContent"
    /\ \E content \in ContentChoices : Set(setContent(St, content))

\* a click or touch on the letter container
LetterClick ==
    /\ opsLeft > 0
    /\ opsLeft' = opsLeft - 1
    /\ lastOp' = "letterClick"
    /\ Set(IF letter.isVisible /\ letter.heartsEnabled THEN spawnHeart(St) ELSE St)

\* the pointer enters a paragraph
LetterHover ==
    /\ opsLeft > 0
    /\ letter.paragraphs # <<>>
    /\ opsLeft' = opsLeft - 1
    /\ lastOp' = "letterHover"
    /\ Set(IF letter.heartsEnabled /\ ~letter.accessibilityMode
           THEN createParagraphEffect(St) ELSE St)

ToggleHearts ==
    /\ opsLeft > 0
    /\ opsLeft' = opsLeft - 1
    /\ lastOp' = "toggleHearts"
    /\ Set(toggleHearts(St))

Due == {j \in DOMAIN timers : timers[j].rem = 0}

Without(seq, j) == [k \in 1 .. (Len(seq) - 1) |-> IF k < j THEN seq[k] ELSE seq[k + 1]]

\* The random delay of a floating heart ends before the longest delay.
FloatHeart ==
    /\ \E j \in DOMAIN timers :
           /\ timers[j].kind = "slideHeart"
           /\ timers[j].rem > 0
           /\ Set(createFloatingHeart([St EXCEPT !.timers = Without(timers, j)]))
    /\ lastOp' = "floatHeart"
    /\ UNCHANGED opsLeft

\* Time passes by one tick when no timer is due.
Tick ==
    /\ timers # <<>>
    /\ Due = {}
    /\ Set([St EXCEPT
              !.timers = [j \in DOMAIN timers |-> [timers[j] EXCEPT !.rem = @ - 1]],
              !.clock = IF clock >= 0 THEN clock + 1 ELSE clock,
              !.letter = elapse(letter, 1)])
    /\ lastOp' = "tick"
    /\ UNCHANGED opsLeft

\* Time passes until the next timer is due.
Leap ==
    /\ timers # <<>>
    /\ Due = {}
    /\ LET k == CHOOSE r \in {timers[j].rem : j \in DOMAIN timers} :
                    \A j \in DOMAIN timers : r <= timers[j].rem
       IN  Set([St EXCEPT
                  !.timers = [j \in DOMAIN timers |-> [timers[j] EXCEPT !.rem = @ - k]],
                  !.clock = IF clock >= 0 THEN clock + k ELSE clock,
                  !.letter = elapse(letter, k)])
    /\ lastOp' = "leap"
    /\ UNCHANGED opsLeft

\* The oldest due timer fires; its callback and the microtasks it wakes run
\* to the next await.
Fire ==
    /\ Due # {}
    /\ LET j == CHOOSE k \in Due : \A m \in Due : k <= m
           t == timers[j]
           s == [St EXCEPT !.timers = Without(timers, j)]
       IN  \E thr \in ThrowChoices, lucky \in BOOLEAN :
               LET r == fireTimer(s, t, thr, lucky)
               IN  /\ lucky => (t.kind = "interval" /\ letter.heartSeq < MaxSpawns)
                   /\ Threw(s, r, thr)
                   /\ Set(r)
    /\ lastOp' = "fire"
    /\ UNCHANGED opsLeft

\* ---------------------------------------------------------- specifications
\* The constructor and setupAccessibility(): `motions` says whether the
\* system asks for reduced motion, `effects` is options.enableHeartEffects.
InitSetup(lengths, delays, transitions, motions, effects) ==
    /\ msgLen \in lengths
    /\ configured \in {[slideDelay |-> Ticks(d), transitionDuration |-> Ticks(x)] :
                          d \in delays, x \in transitions}
    /\ accessibilityMode \in motions
    /\ enableHeartEffects \in effects
    /\ slideDelay = IF accessibilityMode THEN Ticks(ReducedDelayMs)
                     ELSE configured.slideDelay
    /\ transitionDuration = IF accessibilityMode THEN Ticks(ReducedTransitionMs)
                             ELSE configured.transitionDuration
    /\ slideHearts = 0
    /\ heartsMade = 0
    /\ startTime = -1
    /\ callbackArg = NoPayload
    /\ eventDetail = NoPayload
    /\ currentSlide = -1
    /\ isPlaying = FALSE
    /\ isPaused = FALSE
    /\ isCompleted = FALSE
    /\ timers = <<>>
    /\ active = {}
    /\ visible = {}
    /\ progress = Fraction(0, 1)
    /\ sectionHidden = FALSE
    /\ started = ZeroCounts
    /\ completed = ZeroCounts
    /\ seqComplete = 0
    /\ broadcasts = 0
    /\ skipped = FALSE
    /\ curAtComplete = -2
    /\ lenAtComplete = msgLen
    /\ staleRan = FALSE
    /\ startAt = NoTimes
    /\ completeAt = NoTimes
    /\ doneAt = -1
    /\ lastOp = "init"
    /\ opsLeft = MaxOps

\* no reduced motion, no slide hearts, the components stand alone
InitConfig(lengths, delays, transitions) ==
    /\ InitSetup(lengths, delays, transitions, {FALSE}, {FALSE})
    /\ app = AppOff

InitBase == InitConfig(1 .. MaxN, DelayChoices, TransitionChoices)

\* setupDOM found one slide element per message
InitWith(throws) ==
    /\ InitBase
    /\ numSlides = msgLen
    /\ throwsLeft = throws
    /\ clock = -1
    /\ letter = LetterOff

Init == InitWith(0)

InitErr == InitWith(MaxThrows)

\* start() and the timers alone: an uninterrupted play-through
NextSeq == Start \/ Tick \/ Fire

SpecSeq == Init /\ [][NextSeq]_vars

\* start(), pause(), resume() and the timers
NextPR == Start \/ Pause \/ Resume \/ Tick \/ Fire

SpecPR == Init /\ [][NextPR]_vars

\* the operations a user of the intro reaches, no reveal throws
Next == Start \/ Pause \/ Resume \/ NextSlide \/ Skip \/ Keydown \/ Tick \/ Fire

Spec == Init /\ [][Next]_vars

\* the whole public interface, reveals may throw
NextFull ==
    \/ Start \/ Pause \/ Resume \/ NextSlide \/ Skip \/ Keydown
    \/ Complete \/ Stop \/ ResetSlides \/ Restart \/ UpdateConfig
    \/ Tick \/ Fire

SpecFull == InitErr /\ [][NextFull]_vars

\* start(), pause(), resume(), nextSlide() and the timers (a fixed list)
NextLive == Start \/ Pause \/ Resume \/ NextSlide \/ Tick \/ Fire

\* Timers fire, time passes, and a paused sequencer is resumed.
FairSpec ==
    /\ Init /\ [][NextLive]_vars
    /\ WF_vars(Tick) /\ WF_vars(Fire) /\ WF_vars(Resume)

\* the same operations, reveals may throw
SpecErr == InitErr /\ [][Next]_vars

\* the list of messages may be replaced
NextConfig == Start \/ Pause \/ Resume \/ NextSlide \/ UpdateConfig \/ Tick \/ Fire

SpecConfig == Init /\ [][NextConfig]_vars

\* start(), pause(), resume() and the timers, reveals may throw
SpecPRErr == InitErr /\ [][NextPR]_vars

\* setupDOM threw: no slide element was collected
InitFailed ==
    /\ InitBase
    /\ numSlides = 0
    /\ throwsLeft = 0
    /\ clock = -1
    /\ letter = LetterOff

SpecInitFail == InitFailed /\ [][NextSeq]_vars

\* fewer slide elements than messages (at least one: setupDOM did not throw)
InitMissing ==
    /\ InitConfig(2 .. MaxN, DelayChoices, TransitionChoices)
    /\ numSlides \in 1 .. (msgLen - 1)
    /\ throwsLeft = 0
    /\ clock = -1
    /\ letter = LetterOff

SpecMissing ==
    /\ InitMissing
    /\ [][NextPR]_vars
    /\ WF_vars(Tick) /\ WF_vars(Fire) /\ WF_vars(Resume)

\* start(), pause(), resume() called in any state; skip() to reach Completed
NextGuard == Start \/ Pause \/ ResumeCall \/ Skip \/ Tick \/ Fire

SpecGuard == Init /\ [][NextGuard]_vars

\* an uninterrupted play-through with the clock running
InitClock ==
    /\ InitBase
    /\ numSlides = msgLen
    /\ throwsLeft = 0
    /\ clock = 0
    /\ letter = LetterOff

SpecTimeline == InitClock /\ [][NextSeq]_vars

\* the system may ask for reduced motion, at setup or later; slide hearts on
InitMotion ==
    /\ InitSetup({2}, DelayChoices, {50}, BOOLEAN, {TRUE})
    /\ app = AppOff
    /\ numSlides = msgLen
    /\ throwsLeft = 0
    /\ clock = -1
    /\ letter = LetterOff

NextMotion == Start \/ MotionChange \/ FloatHeart \/ Leap \/ Fire

SpecMotion == InitMotion /\ [][NextMotion]_vars

\* resetSlides() among start, pause, resume and skip
NextReset == Start \/ Pause \/ Resume \/ Skip \/ ResetSlides \/ Tick \/ Fire

SpecReset == Init /\ [][NextReset]_vars

\* the keyboard alone drives a started sequencer
NextKeys == Start \/ KeySpace \/ KeyEnter \/ KeyEscape \/ Tick \/ Fire

SpecKeys == Init /\ [][NextKeys]_vars

\* start(), pause(), resume(), nextSlide(), stop(), restart() and the timers
NextLoops ==
    \/ Start \/ Pause \/ Resume \/ NextSlide \/ Stop \/ Restart
    \/ Tick \/ Fire

SpecLoops == Init /\ [][NextLoops]_vars

\* every operation that writes isPlaying, isPaused or isCompleted (restart()
\* is stop(), resetSlides(), start()); reveals may throw
NextFlags ==
    \/ Start \/ Pause \/ Resume \/ Skip \/ Stop \/ ResetSlides
    \/ Tick \/ Fire

InitFlags ==
    /\ InitConfig(1 .. MaxN, {50}, {50})
    /\ numSlides = msgLen
    /\ throwsLeft = MaxThrows
    /\ clock = -1
    /\ letter = LetterOff

SpecFlags == InitFlags /\ [][NextFlags]_vars

\* ------------------------------------------------- specifications: letter
Words == UNION {[1 .. n -> Alphabet] : n \in 0 .. MaxWordLen}

Plain == <<"a">>
Ended == <<"a", ".">>
Inner == <<".", "a">>

\* letters of two paragraphs and of one
LetterContents == {<< <<Plain, Ended>>, <<Inner, Plain>> >>, << <<Plain>> >>}

InitLetter(contents, modes, hearts, speeds, signatures) ==
    /\ InitConfig({1}, {50}, {50})
    /\ numSlides = msgLen
    /\ throwsLeft = 0
    /\ clock = -1
    /\ letter \in {LetterDisplay(c, m, w, h, v, g) :
                     c \in contents, m \in modes, w \in BOOLEAN, h \in hearts,
                     v \in speeds, g \in signatures}

\* the sequencer hands over to the letter
InitHandoff ==
    InitLetter({<< <<Plain, Ended>>, <<Inner, Plain>> >>}, BOOLEAN, {FALSE}, {50}, {TRUE})

NextHandoff == Start \/ Pause \/ Resume \/ Skip \/ Leap \/ Fire

SpecHandoff ==
    /\ InitHandoff
    /\ [][NextHandoff]_vars
    /\ WF_vars(Leap)
    /\ WF_vars(Fire)

\* one paragraph of one word, for every word over the alphabet
InitWords ==
    InitLetter({<< <<w>> >> : w \in Words}, {FALSE}, {FALSE}, SpeedChoices, {TRUE})

SpecWords == InitWords /\ [][NextSeq]_vars

\* the letter is hidden and shown again
InitReshow == InitLetter(LetterContents, {FALSE}, {FALSE}, SpeedChoices, {FALSE})

NextReshow == Start \/ Restart \/ LetterHide \/ Leap \/ Fire

SpecReshow == InitReshow /\ [][NextReshow]_vars

\* the application restarts the experience, the sequencer is restarted
InitRestart ==
    /\ InitSetup({2}, {50}, {50}, {FALSE}, {FALSE})
    /\ app = ValentineApp
    /\ numSlides = msgLen
    /\ throwsLeft = 0
    /\ clock = -1
    /\ letter \in {LetterDisplay(<< <<Plain>> >>, FALSE, w, FALSE, 50, FALSE) :
                     w \in BOOLEAN}

NextRestart ==
    \/ StartExperience \/ Pause \/ Resume \/ KeyEscape \/ Restart \/ RestartExperience
    \/ Leap \/ Fire

SpecRestart ==
    /\ InitRestart
    /\ [][NextRestart]_vars
    /\ WF_vars(Leap) /\ WF_vars(Fire) /\ WF_vars(Resume)

\* the application alone: startExperience(), restartExperience(), Escape
NextRelaunch == StartExperience \/ KeyEscape \/ RestartExperience \/ Leap \/ Fire

SpecRelaunch == InitRestart /\ [][NextRelaunch]_vars

\* restartExperience() and Escape alone: startExperience() runs only as the
\* delayed callback of a restartExperience()
NextPhases == RestartExperience \/ KeyEscape \/ Leap \/ Fire

SpecPhases == InitRestart /\ [][NextPhases]_vars

\* one step of show() may throw: the entrance, the content animation, the
\* onShow hook or the start of the background hearts
Faults == {"none", "entrance", "content", "onShow", "hearts"}

InitFault ==
    /\ InitConfig({1}, {50}, {50})
    /\ numSlides = msgLen
    /\ throwsLeft = 0
    /\ clock = -1
    /\ letter \in {[LetterDisplay(<< <<Plain, Ended>>, <<Plain>> >>, FALSE, w, h, 50, FALSE)
                        EXCEPT !.fault = f] :
                     w \in BOOLEAN, h \in BOOLEAN, f \in Faults}

NextFault == Start \/ Pause \/ Resume \/ KeyEscape \/ Leap \/ Fire

SpecFault == InitFault /\ [][NextFault]_vars

\* the content of the letter is replaced, before, during or after a reveal
InitContent == InitLetter({<< <<Plain, Plain>>, <<Plain>> >>}, {FALSE}, {FALSE}, {50}, {FALSE})

NextContent == Start \/ SetContent \/ Leap \/ Fire

SpecContent == InitContent /\ [][NextContent]_vars

\* clicks, hovers and the hearts toggle on the letter
InitHearts == InitLetter({<< <<Plain>> >>}, {FALSE}, BOOLEAN, {50}, {FALSE})

NextHearts == Start \/ LetterClick \/ LetterHover \/ ToggleHearts \/ Leap \/ Fire

SpecHearts == InitHearts /\ [][NextHearts]_vars

\* the background hearts over show(), hide(), toggleHearts() and a new show()
InitIntervals == InitLetter({<< <<Plain>> >>}, {FALSE}, {TRUE}, {50}, {FALSE})

NextIntervals == Start \/ Restart \/ LetterHide \/ ToggleHearts \/ Leap \/ Fire

SpecIntervals == InitIntervals /\ [][NextIntervals]_vars

\* the same without toggleHearts(): the letter is hidden and shown again
SpecReshowHearts == InitIntervals /\ [][NextReshow]_vars

\* ------------------------------------------------------------------ claims
TrackedPending == {j \in DOMAIN timers : timers[j].tracked}

\* C1: once started, the sequencer eventually reaches Completed, whatever
\* pause(), resume() and nextSlide() calls are made, given fair timers and
\* a resume() after every pause().
C1_EventuallyCompleted == isPlaying ~> isCompleted

\* C2: within one play-through onSequenceComplete is invoked at most once
\* and 'introSlidesComplete' is dispatched at most once.
C2_CompletesAtMostOnce == seqComplete <= 1 /\ broadcasts <= 1

\* C3: whenever the completion has fired, skip() was called or currentSlide
\* was length-1 when it fired.
C3_CompletionAtLastSlide ==
    seqComplete > 0 => (skipped \/ curAtComplete = lenAtComplete - 1)

\* C4: a play-through that reached Completed without skip() has invoked
\* onSlideStart and onSlideComplete exactly once for every index 0..N-1, in
\* increasing order, and onSequenceComplete exactly once.
C4_ExactlyNCallbacks ==
    /\ (isCompleted /\ ~skipped) =>
          /\ \A i \in 0 .. (msgLen - 1) : started[i] = 1 /\ completed[i] = 1
          /\ seqComplete = 1
    /\ \A i \in 1 .. (msgLen - 1) : started[i] > 0 => started[i - 1] > 0

\* C5: pause() then resume() continues at currentSlide+1: no index is
\* started or completed twice, currentSlide does not change from the pause
\* to the resume, and the resumed loop starts index currentSlide+1.
C5_NoRepeat == \A i \in Indices : started[i] <= 1 /\ completed[i] <= 1

C5_PausedStep ==
    /\ isPaused' => currentSlide' = currentSlide
    /\ (isPaused /\ ~isPaused') =>
          IF currentSlide < msgLen - 1
          THEN /\ currentSlide' = currentSlide + 1
               /\ started' = [started EXCEPT ![currentSlide + 1] = @ + 1]
          ELSE currentSlide' = currentSlide /\ started' = started

\* C5: both parts, in every state and in every step of a pause/resume run.
C5_ResumeContinues == [](C5_NoRepeat) /\ [][C5_PausedStep]_vars

C5_Witness ==
    /\ \E j \in DOMAIN timers : timers[j].caller = "cont" /\ timers[j].kind = "trans"
    /\ currentSlide > 0
    /\ started[currentSlide] = 1

\* C6: skip() while Playing fires onSequenceComplete in the same step, and
\* afterwards no onSlideStart and no onSlideComplete is invoked in that
\* play-through.
C6_SkipStep ==
    /\ (isPlaying /\ ~skipped /\ skipped') =>
          seqComplete' = seqComplete + 1 /\ isCompleted'
    /\ (skipped /\ skipped') => started' = started /\ completed' = completed

\* C6: every step obeys the skip rule above.
C6_SkipIsFinal == [][C6_SkipStep]_vars

C6_Witness ==
    /\ skipped /\ isCompleted /\ seqComplete = 1
    /\ started[0] = 1 /\ completed[0] = 0
    /\ timers # <<>>

\* C7: while the sequencer is Paused no timer created by wait() is pending.
C7_PausedNoTimer == isPaused => TrackedPending = {}

\* C8: no callback of a timer created before a pause(), stop() or skip()
\* runs after it.
C8_NoStaleCallback == ~staleRan

\* C9: currentSlide is always in [-1, length-1] and never decreases within
\* a play-through.
C9_Range == currentSlide \in -1 .. (msgLen - 1)

C9_Monotone == (started' # ZeroCounts \/ started = ZeroCounts) => currentSlide' >= currentSlide

\* C9: the range in every state and the monotonicity in every step.
C9_RangeAndMonotone == [](C9_Range) /\ [][C9_Monotone]_vars

\* C10: in an uninterrupted play-through onSlideStart for item i+1 never
\* occurs before onSlideComplete for item i.
C10_StartAfterComplete ==
    \A i \in 1 .. (MaxN - 1) : started[i] > 0 => completed[i - 1] > 0

C10_Witness == msgLen = MaxN /\ started[MaxN - 1] = 1 /\ completed[MaxN - 2] = 1

\* C11: when a reveal throws, the sequencer is never left Playing with no
\* pending timer, and the completion fires at most once.
C11_ErrorsRecovered ==
    /\ (isPlaying /\ ~isPaused) => TrackedPending # {}
    /\ seqComplete <= 1

\* C12: after a failed initialization (no slide element collected) start()
\* does not enter Playing and no completion is ever fired.
C12_FailedInitDoesNothing ==
    numSlides = 0 => (~isPlaying /\ seqComplete = 0 /\ broadcasts = 0)

C13_Unchanged ==
    UNCHANGED <<isPlaying, isPaused, isCompleted, currentSlide, timers, active,
                visible, progress, started, completed, seqComplete, broadcasts>>

C13_GuardStep ==
    /\ (lastOp' = "start" /\ (isPlaying \/ isCompleted)) => C13_Unchanged
    /\ (lastOp' = "pause" /\ (~isPlaying \/ isPaused)) => C13_Unchanged
    /\ (lastOp' = "resume" /\ (~isPlaying \/ ~isPaused)) => C13_Unchanged

\* C13: start() while Playing, Paused or Completed, pause() while Idle,
\* Paused or Completed and resume() while Idle, Playing or Completed change
\* no sequencer state and fire no callback.
C13_NoOpGuards == [][C13_GuardStep]_vars

C13_Witness ==
    /\ lastOp = "start" /\ isPlaying /\ isPaused /\ currentSlide >= 0
    /\ opsLeft = MaxOps - 3

C14_NextSlideStep ==
    (lastOp' = "nextSlide" /\ ~(isPlaying /\ ~isPaused)) =>
        UNCHANGED <<currentSlide, timers, started>>

\* C14: nextSlide() while Idle, Paused or Completed changes neither
\* currentSlide nor the pending timers and fires no onSlideStart.
C14_NextSlideOnlyWhenPlaying == [][C14_NextSlideStep]_vars

\* C19: a particle made by spawnHeart is removed exactly heartLifetime after
\* its spawn unless removed earlier; toggling particles off removes every
\* particle in the same step; and while particles are off none is added, not
\* even by hover or background spawns scheduled before the toggle.
C19_Lifetime ==
    \A h \in letter.hearts :
        /\ h.age <= Ticks(HeartLifetimeMs)
        /\ \E j \in DOMAIN timers :
              /\ timers[j].kind = "heartGone"
              /\ timers[j].idx = h.id
              /\ timers[j].rem = Ticks(HeartLifetimeMs) - h.age

C19_NoneWhileOff == ~letter.heartsEnabled => letter.hearts = {}

C19_Step ==
    /\ \A h \in letter.hearts :
          (\A g \in letter'.hearts : g.id # h.id) =>
              h.age = Ticks(HeartLifetimeMs) \/ ~letter'.heartsEnabled
    /\ (letter.heartsEnabled /\ ~letter'.heartsEnabled) => letter'.hearts = {}
    /\ ~letter'.heartsEnabled => letter'.heartSeq = letter.heartSeq

C19_Particles == [](C19_Lifetime /\ C19_NoneWhileOff) /\ [][C19_Step]_vars

C19_Witness ==
    /\ letter.isVisible
    /\ ~letter.heartsEnabled
    /\ letter.heartSeq > 0
    /\ letter.hearts = {}
    /\ \E j \in DOMAIN timers : timers[j].kind = "hoverHeart"
    /\ \E j \in DOMAIN timers : timers[j].kind = "heartGone"

\* C20: in an uninterrupted play-through item i starts at i*(T+D), its
\* onSlideComplete fires at i*(T+D)+T and the sequence completes at
\* (N-1)*(T+D)+T+400 ms; N=3, D=100, T=50 gives 0/150/300, 50/200/350, 750.
C20_Timeline ==
    LET T == transitionDuration
        D == slideDelay
    IN  /\ \A i \in 0 .. (msgLen - 1) :
              /\ started[i] > 0 => startAt[i] = i * (T + D)
              /\ completed[i] > 0 => completeAt[i] = i * (T + D) + T
        /\ seqComplete > 0 => doneAt = (msgLen - 1) * (T + D) + T + Ticks(FinalPauseMs)
        /\ (msgLen = 3 /\ D = Ticks(100) /\ T = Ticks(50)) =>
              /\ \A i \in 0 .. 2 :
                    /\ started[i] > 0 => startAt[i] = Ticks(i * 150)
                    /\ completed[i] > 0 => completeAt[i] = Ticks(i * 150 + 50)
              /\ seqComplete > 0 => doneAt = Ticks(750)

C20_Witness ==
    /\ msgLen = 3 /\ slideDelay = Ticks(100) /\ transitionDuration = Ticks(50)
    /\ seqComplete = 1 /\ doneAt = Ticks(750) /\ startAt[2] = Ticks(300)

\* C16: whenever animateParagraph finishes, the text it leaves in the
\* paragraph is the text the paragraph held before the reveal of that content
\* began, also when show() runs again after hide().
C16_RestoredVerbatim ==
    \A k \in DOMAIN letter.restored :
        letter.restored[k] # <<>> => letter.restored[k] = letter.content[k]

\* C17: in progressive mode the delay after a revealed word is three times
\* typewriterSpeed exactly when the word ends with '.', '!' or '?', and
\* typewriterSpeed otherwise, also for a word with such a character inside.
C17_EndsWithPunctuation(word) == word # <<>> /\ word[Len(word)] \in Punctuation

C17_DelayTripledAtSentenceEnd ==
    letter.lastDelay # 0 =>
        letter.lastDelay = IF C17_EndsWithPunctuation(letter.lastWord)
                           THEN 3 * letter.typewriterSpeed
                           ELSE letter.typewriterSpeed

\* C15: the letter's container is not visible and no content is revealed
\* before a completion broadcast was dispatched and entranceDelay has passed;
\* content is revealed only after the entrance wait; and with fair timers the
\* first broadcast is eventually followed by onContentComplete.
C15_Revealing ==
    \/ letter.typewriterActive
    \/ letter.contentComplete > 0
    \/ letter.signatureVisible
    \/ /\ letter.enableTypewriter \/ ~letter.accessibilityMode
       /\ \E k \in DOMAIN letter.paragraphs : letter.paragraphs[k].vis
    \/ \E j \in DOMAIN timers : timers[j].kind \in {"word", "paragraph"}

C15_AfterBroadcast ==
    /\ (letter.containerVisible \/ letter.isAnimating) =>
          /\ broadcasts > 0
          /\ letter.sinceHeard >= Ticks(EntranceDelayMs)
    /\ C15_Revealing =>
          /\ letter.entered > 0
          /\ letter.sinceHeard >= Ticks(EntranceDelayMs) + Ticks(EntranceWaitMs)

C15_Handoff ==
    /\ [](C15_AfterBroadcast)
    /\ (broadcasts > 0 ~> letter.contentComplete > 0)

C15_Witness ==
    /\ broadcasts = 1
    /\ ~letter.accessibilityMode
    /\ letter.enableTypewriter
    /\ Len(letter.paragraphs) = 2
    /\ \A k \in DOMAIN letter.paragraphs : letter.paragraphs[k].typed
    /\ letter.contentComplete = 1

\* C18: in accessibility mode show() reveals at once: the step that ends the
\* entrance wait makes every paragraph visible, schedules no per-word or
\* per-paragraph timer and fires onContentComplete once for that show().
C18_TypingTimers == {j \in DOMAIN timers : timers[j].kind \in {"word", "paragraph"}}

C18_EntranceStep ==
    (letter.accessibilityMode /\ letter'.entered = letter.entered + 1) =>
        /\ \A k \in DOMAIN letter'.paragraphs : letter'.paragraphs[k].vis
        /\ letter'.contentComplete = letter.contentComplete + 1
        /\ \A j \in DOMAIN timers' : timers'[j].kind \notin {"word", "paragraph"}

C18_Immediate ==
    letter.accessibilityMode =>
        /\ C18_TypingTimers = {}
        /\ ~letter.typewriterActive
        /\ letter.contentComplete = letter.entered

C18_ImmediateMode == [](C18_Immediate) /\ [][C18_EntranceStep]_vars

C18_Witness ==
    /\ letter.accessibilityMode
    /\ letter.enableTypewriter
    /\ Len(letter.paragraphs) = 2
    /\ letter.entered = 1
    /\ letter.contentComplete = 1
    /\ \A k \in DOMAIN letter.paragraphs : letter.paragraphs[k].vis

\* C22: resetSlides() called from Paused or Completed leaves the sequencer
\* Idle: isPlaying, isPaused and isCompleted all false, currentSlide = -1 and
\* no slide marked active.
C22_ResetStep ==
    (lastOp' = "resetSlides" /\ (isPaused \/ isCompleted)) =>
        /\ ~isPlaying' /\ ~isPaused' /\ ~isCompleted'
        /\ currentSlide' = -1
        /\ active' = {}

C22_ResetLeavesIdle == [][C22_ResetStep]_vars

\* C24: Space or Enter pauses a Playing sequencer and resumes a Paused one,
\* Escape completes it from Playing or Paused, and none of these keys changes
\* the sequencer when it is Idle or Completed.
C24_KeyStep ==
    /\ (lastOp' \in {"Space", "Enter"} /\ isPlaying /\ ~isPaused) =>
          (isPlaying' /\ isPaused' /\ ~isCompleted')
    /\ (lastOp' \in {"Space", "Enter"} /\ isPlaying /\ isPaused) =>
          (isPlaying' /\ ~isPaused' /\ ~isCompleted')
    /\ (lastOp' = "Escape" /\ isPlaying) =>
          (~isPlaying' /\ ~isPaused' /\ isCompleted' /\ seqComplete' = seqComplete + 1)
    /\ (lastOp' \in {"Space", "Enter", "Escape"} /\ ~isPlaying) => C13_Unchanged

C24_Keys == [][C24_KeyStep]_vars

C24_Witness ==
    /\ lastOp = "Escape"
    /\ isCompleted
    /\ skipped
    /\ currentSlide >= 0
    /\ opsLeft = 0

\* C28: without an error fallback at most one slide is marked active, under
\* any interleaving of the play loop with pause(), resume() and nextSlide().
C28_OneActive == Cardinality(active) <= 1

C28_Witness ==
    /\ lastOp = "nextSlide"
    /\ isPaused
    /\ currentSlide = 1
    /\ active = {1}

\* C29: nextSlide() while Playing below the last index cancels every pending
\* sequencing timer, raises currentSlide by exactly one and fires onSlideStart
\* for the new index in the same step; at the last index it changes and
\* cancels nothing.
C29_NextSlideStep ==
    /\ (lastOp' = "nextSlide" /\ isPlaying /\ ~isPaused /\ currentSlide < msgLen - 1) =>
          /\ currentSlide' = currentSlide + 1
          /\ started'[currentSlide + 1] = started[currentSlide + 1] + 1
          /\ Cardinality({j \in DOMAIN timers' : timers'[j].tracked}) = 1
          /\ \A j \in DOMAIN timers' :
                timers'[j].tracked =>
                    /\ timers'[j].kind = "trans"
                    /\ timers'[j].idx = currentSlide + 1
                    /\ timers'[j].rem = transitionDuration
    /\ (lastOp' = "nextSlide" /\ isPlaying /\ ~isPaused /\ currentSlide = msgLen - 1) =>
          C13_Unchanged

C29_NextSlideAdvances == [][C29_NextSlideStep]_vars

C29_Witness ==
    /\ lastOp = "nextSlide"
    /\ isPlaying
    /\ ~isPaused
    /\ currentSlide = 1
    /\ started[1] = 1
    /\ completed[0] = 0

\* C30: after item i is revealed the progress indicator is (i+1)/length, it
\* never decreases within a play-through, and it is 100% in every Completed
\* state.
C30_Equal(p, q) == p.num * q.den = q.num * p.den

C30_ProgressStep ==
    /\ (started' # started /\ started' # ZeroCounts) =>
          C30_Equal(progress', Fraction(currentSlide' + 1, msgLen))
    /\ progress.num * progress'.den <= progress'.num * progress.den

C30_Progress ==
    /\ [](isCompleted => C30_Equal(progress, Fraction(1, 1)))
    /\ [][C30_ProgressStep]_vars

C30_Witness ==
    /\ msgLen = MaxN
    /\ isCompleted
    /\ ~skipped
    /\ started[MaxN - 1] = 1
    /\ progress = Fraction(1, 1)

\* C25: the 'introSlidesComplete' broadcast carries the elapsed duration and
\* the item count, the same two values that onSequenceComplete received.
C25_SamePayload ==
    broadcasts > 0 =>
        /\ {"duration", "slideCount"} \subseteq DOMAIN eventDetail
        /\ eventDetail.duration = callbackArg.duration
        /\ eventDetail.slideCount = callbackArg.slideCount

\* the duration of the broadcast is the one the callback received
C25_DurationAgrees ==
    broadcasts > 0 =>
        /\ "duration" \in DOMAIN eventDetail
        /\ eventDetail.duration = callbackArg.duration
        /\ callbackArg.slideCount = msgLen

\* C21: while reduced-motion mode is active, slideDelay and transitionDuration
\* are no greater than the values the constructor was given, and a reveal
\* schedules no decorative slide heart.
C21_Shortened ==
    accessibilityMode =>
        /\ slideDelay <= configured.slideDelay
        /\ transitionDuration <= configured.transitionDuration

C21_SlideHeartTimers(seq) == Len(SelectSeq(seq, LAMBDA t : t.kind = "slideHeart"))

C21_RevealStep ==
    (accessibilityMode' /\ started' # started /\ started' # ZeroCounts) =>
        C21_SlideHeartTimers(timers') <= C21_SlideHeartTimers(timers)

C21_ReducedMotion == [](C21_Shortened) /\ [][C21_RevealStep]_vars

\* no reveal made under reduced motion schedules a heart
C21_NoHeartAtReveal == [][C21_RevealStep]_vars

\* no heart appears while reduced motion is on
C21_NoHeartWhileActive == [][accessibilityMode => heartsMade' <= heartsMade]_vars

\* C23: restart() and restartExperience(), invoked from Playing, Paused or
\* Completed, begin a new play-through that shows item 0 first, in which no
\* callback scheduled by the previous play-through fires, and which reaches
\* Completed exactly once when timers fire.
C23_FiredTimer == timers[CHOOSE k \in Due : \A m \in Due : k <= m]

C23_Restarted == lastOp \in {"restart", "restartExperience"}

C23_RestartStep ==
    /\ (lastOp' = "restart" /\ (isPlaying \/ isCompleted)) =>
          /\ isPlaying' /\ ~isPaused' /\ ~isCompleted'
          /\ currentSlide' = 0
          /\ started' = [ZeroCounts EXCEPT ![0] = 1]
    /\ (lastOp' = "restartExperience" /\ (isPlaying \/ isCompleted)) =>
          /\ ~isPlaying' /\ ~isPaused' /\ ~isCompleted'
          /\ currentSlide' = -1
          /\ \E j \in DOMAIN timers' : timers'[j].kind = "startExperience"

C23_ItemZeroFirst == \A i \in Indices : started[i] > 0 => started[0] > 0

C23_NoOldCallbackStep ==
    (lastOp' = "fire" /\ C23_FiredTimer.kind # "startExperience") =>
        ~C23_FiredTimer.old

C23_Restart ==
    /\ [](C23_ItemZeroFirst /\ seqComplete <= 1)
    /\ [][C23_RestartStep /\ C23_NoOldCallbackStep]_vars
    /\ (C23_Restarted ~> isCompleted)

\* a restart begins at item 0 and the new play-through completes, once
C23_NewPlayThrough ==
    /\ [](C23_ItemZeroFirst /\ seqComplete <= 1)
    /\ [][C23_RestartStep]_vars
    /\ (C23_Restarted ~> isCompleted)

\* no sequencing callback of the previous play-through runs after a restart
C23_NoOldSequencing ==
    [][(lastOp' = "fire" /\ C23_FiredTimer.old) =>
           C23_FiredTimer.kind \notin {"trans", "delay", "final", "errComplete"}]_vars

\* C27: when a step of LetterDisplay.show() throws, all paragraphs are
\* visible, isAnimating is false and onContentComplete has been invoked
\* exactly once for that show().
C27_Recovered ==
    /\ \A k \in DOMAIN letter.paragraphs : letter.paragraphs[k].vis
    /\ ~letter.isAnimating
    /\ letter.contentComplete = 1

C27_ShowFallback == letter.caught > 0 => C27_Recovered

\* the same for a throw of the entrance or of the content animation
C27_EarlyFallback ==
    (letter.caught > 0 /\ letter.fault \in {"entrance", "content"}) => C27_Recovered

\* C26: after setContent with a list of N paragraphs the paragraph list has
\* exactly N entries in input order, no entry carries a visual override or a
\* completion mark of a reveal that began before the list existed, and a
\* reveal run begun on the list has processed all its entries when it ends.
C26_SetContentStep ==
    lastOp' = "setContent" =>
        /\ Len(letter'.paragraphs) = Len(letter'.content)
        /\ \A k \in DOMAIN letter'.paragraphs :
               /\ letter'.paragraphs[k].text = letter'.content[k]
               /\ letter'.paragraphs[k].by = -1
               /\ ~letter'.paragraphs[k].typed

C26_NoLeak ==
    \A k \in DOMAIN letter.paragraphs :
        letter.paragraphs[k].by \in {-1, letter.paragraphs[k].gen}

C26_AllProcessed ==
    letter.finishedRun = letter.gen =>
        \A k \in DOMAIN letter.paragraphs :
            letter.paragraphs[k].vis /\ letter.paragraphs[k].by = letter.gen

C26_SetContent ==
    /\ [](C26_NoLeak /\ C26_AllProcessed)
    /\ [][C26_SetContentStep]_vars

\* the list after setContent with paragraphs free of markup
C26_FreshPlainList ==
    [][(\A k \in DOMAIN letter'.content :
            \A w \in DOMAIN letter'.content[k] : letter'.content[k][w] # OpenP)
        => C26_SetContentStep]_vars

\* a run begun on the current list has processed every entry when it ends
C26_RunProcessesAll == [](C26_AllProcessed)

\* no entry is styled by a run that began on an earlier list
C26_NoResidue == [](C26_NoLeak)

\* C31: with fewer slide elements than messages, an index without a slide
\* element fires neither onSlideStart nor onSlideComplete and never becomes
\* currentSlide, and the play-through still reaches Completed.
C31_Skipped ==
    /\ \A i \in Indices : i >= numSlides => started[i] = 0 /\ completed[i] = 0
    /\ currentSlide < numSlides

C31_MissingSkipped == [](C31_Skipped) /\ (isPlaying ~> isCompleted)

C31_Witness ==
    /\ msgLen = MaxN
    /\ numSlides = 1
    /\ isCompleted
    /\ ~skipped
    /\ started[0] = 1
    /\ completed[0] = 1
    /\ currentSlide = 0
    /\ seqComplete = 1

\* C32: in progressive mode the signature reveal begins only when every
\* paragraph has finished its reveal and is marked complete, and
\* onContentComplete is invoked only once the signature reveal has begun.
C32_Progressive == letter.enableTypewriter /\ ~letter.accessibilityMode

C32_AllFinished(l) ==
    \A k \in DOMAIN l.paragraphs :
        /\ l.paragraphs[k].typed
        /\ l.paragraphs[k].vis
        /\ l.paragraphs[k].text = l.content[k]

C32_SignatureStep ==
    (C32_Progressive /\ letter.signature) =>
        /\ (~letter.signatureVisible /\ letter'.signatureVisible) =>
               C32_AllFinished(letter')
        /\ letter'.contentComplete > letter.contentComplete =>
               letter'.signatureVisible

C32_SignatureLast == [][C32_SignatureStep]_vars

C32_Witness ==
    /\ C32_Progressive
    /\ letter.signature
    /\ Len(letter.paragraphs) = 2
    /\ letter.signatureVisible
    /\ letter.signatureHeart
    /\ letter.contentComplete = 1
    /\ C32_AllFinished(letter)

\* C33: at most one sequencer play loop is live: no reachable state has two
\* of playSequence, continueSequence and a manual nextSlide() reveal each
\* holding a pending wait, under start(), pause(), resume(), nextSlide(),
\* stop() and restart().
C33_Holders ==
    {j \in DOMAIN timers : timers[j].kind \in {"trans", "delay", "final"}}

C33_Loops == {j \in C33_Holders : timers[j].caller # "none"}

C33_OneLiveLoop == Cardinality(C33_Holders) <= 1

\* a resumed loop reveals a slide while a manual reveal is still in transition
C33_RevealPlusLoop ==
    /\ isPlaying /\ ~isPaused
    /\ \E j, k \in C33_Holders :
           /\ j < k
           /\ timers[j].kind = "trans" /\ timers[j].caller = "none"
           /\ timers[k].kind = "trans" /\ timers[k].caller = "cont"
           /\ timers[k].idx = timers[j].idx + 1

C33_NoRevealPlusLoop == ~C33_RevealPlusLoop

\* two loops proper never wait at the same time
C33_OneLoopProper == Cardinality(C33_Loops) <= 1

\* C34: in every reachable state isPaused implies isPlaying, and isCompleted
\* implies that isPlaying and isPaused are both false.
C34_FlagsConsistent ==
    /\ isPaused => isPlaying
    /\ isCompleted => ~isPlaying /\ ~isPaused

\* Completed after a handler threw
C34_Witness ==
    /\ isCompleted /\ ~isPlaying /\ ~isPaused
    /\ throwsLeft < MaxThrows
    /\ seqComplete = 1
    /\ lastOp = "fire"
    /\ opsLeft < MaxOps - 1

\* C35: the letter never becomes visible or reveals content while an intro
\* play-through is Playing: after restartExperience() no show() scheduled by
\* the previous completion broadcast runs during the new play-through.
C35_FiredTimer == timers[CHOOSE k \in Due : \A m \in Due : k <= m]

C35_NoShowStep ==
    (lastOp' = "fire" /\ C35_FiredTimer.kind = "letterShow") => ~isPlaying

C35_LetterQuiet == isPlaying => ~letter.isAnimating /\ ~letter.typewriterActive

C35_NoLetterDuringIntro == [](C35_LetterQuiet) /\ [][C35_NoShowStep]_vars

\* no show() of a previous broadcast runs while Playing
C35_NoOldShow == [][C35_NoShowStep]_vars

\* no entrance and no typing while Playing
C35_QuietWhilePlaying == [](C35_LetterQuiet)

\* C36: while a play-through is Playing or Paused the intro section is never
\* hidden by the auto-hide timer of an earlier play-through: after a restart
\* within the hide delay, hide() does not run during the new play-through.
C36_FiredTimer == timers[CHOOSE k \in Due : \A m \in Due : k <= m]

C36_NoHideStep ==
    (lastOp' = "fire" /\ C36_FiredTimer.kind \in {"hide", "hidden"}) => ~isPlaying

C36_SectionShown == isPlaying => ~sectionHidden

C36_NoAutoHide == [](C36_SectionShown) /\ [][C36_NoHideStep]_vars

\* neither hide() nor its delayed step runs while Playing or Paused
C36_NoHideCallback == [][C36_NoHideStep]_vars

\* the section does not carry 'hidden' while Playing or Paused
C36_NeverHiddenWhilePlaying == [](C36_SectionShown)

\* C37: at most one typewriter reveal loop (animateContent) runs over the
\* letter paragraphs at any time, also when the letter is hidden during a
\* reveal and shown again after a restart.
C37_RunningLoops ==
    {j \in DOMAIN timers : timers[j].kind \in {"word", "paragraph"}}

C37_OneRevealLoop == Cardinality(C37_RunningLoops) <= 1

\* C38: at most one background particle interval is active at any time,
\* across show(), hide(), toggleHearts() and a repeated show(); toggling the
\* particles off leaves no active interval.
C38_Intervals(q) == {j \in DOMAIN q : q[j].kind = "interval"}

C38_AtMostOne == Cardinality(C38_Intervals(timers)) <= 1

C38_ToggleOffStep ==
    (lastOp' = "toggleHearts" /\ ~letter'.heartsEnabled) =>
        C38_Intervals(timers') = {}

C38_OneInterval == [](C38_AtMostOne) /\ [][C38_ToggleOffStep]_vars

\* never two intervals
C38_NeverTwoIntervals == [](C38_AtMostOne)

\* toggling off leaves none
C38_ToggleOffClears == [][C38_ToggleOffStep]_vars

\* C39: in every reachable state of ValentineApp introComplete is true if and
\* only if currentPhase is 'letter', under restartExperience() calls, their
\* delayed startExperience() and the sequencer's completion or skip.
C39_PhaseMatches == app.introComplete <=> (app.currentPhase = "letter")

====
